---- MODULE Spec2Model ----
(***************************************************************************)
(* Browser-side behaviour of Spotilytics: the item-stats section, the home *)
(* page's custom date range form, the table sorters, the chart registry    *)
(* and the podium/list toggle.  Each page is a specification of its own    *)
(* over the shared variables; a page's actions leave the other pages'      *)
(* variables alone.                                                        *)
(***************************************************************************)
EXTENDS Integers, Sequences, FiniteSets, TLC

(* ----------------------------- bounds ---------------------------------- *)
\* number of stats requests one page view may start (initial load included)
MaxRequests == 3
\* number of body rows of a sortable table
MaxRows == 2
\* days a date field can name; the last one lies in the future
MaxDay == 3
\* clock ticks per day
TicksPerDay == 2
\* largest scroll offset
MaxScroll == 1
\* releases a discography holds besides its run of studio albums
MaxReleases == 2
\* loadReleases calls of one artist page view
MaxRelRequests == 2
\* chat submissions of one page view
MaxChats == 2
\* preview requests of one track page view
MaxPreviewRequests == 4
MaxFiles == 3
MaxDeletes == 2
MaxSendClicks == 2

(* ======================================================================= *)
(* Item-stats section: item_stats.js / partials/item_stats.js lines 8-65   *)
(* ======================================================================= *)

VARIABLES
  activeBtns,    \* the .time-range-btn elements that carry class "active"
  statText,      \* textContent of the eight stat elements
  inflight,      \* stats requests sent and not yet answered
  sent,          \* number of stats requests started so far
  completed,     \* number of stats requests whose promise has settled
  lastOutcome,   \* how the most recently settled request ended
  lastClicked    \* data-range of the most recently clicked button, or "none"

statsVars == <<activeBtns, statText, inflight, sent, completed, lastOutcome, lastClicked>>

\* data-range attributes of the .time-range-btn buttons
RangeBtns == {"last_7_days", "last_4_weeks", "6_months", "last_year", "all_time"}

\* ids of the DOM elements that loadStats patches
StatIds == {"total-plays", "total-minutes", "peak-position", "avg-gap",
            "longest-streak", "peak-day-plays", "prime-time", "repeat-rate"}

\* the response field each element is filled from
FieldOf(id) ==
  CASE id = "total-plays"    -> "total_plays"
    [] id = "total-minutes"  -> "total_minutes"
    [] id = "peak-position"  -> "peak_position"
    [] id = "avg-gap"        -> "avg_gap"
    [] id = "longest-streak" -> "longest_streak"
    [] id = "peak-day-plays" -> "peak_day_plays"
    [] id = "prime-time"     -> "prime_time"
    [] id = "repeat-rate"    -> "repeat_rate"

\* how a fetch can end: the promise rejects, the server answers 2xx with the
\* stats object, or it answers non-2xx with a JSON body that has no stats
\* fields, or non-2xx with a body that is not JSON
Outcomes == {"network_error", "ok", "http_error_json", "http_error_not_json"}
Failures == {"network_error", "http_error_json", "http_error_not_json"}

\* the value of a field of the parsed body: the server's figure for the
\* requested range, or undefined when the body has no such field
Undefined == [range |-> "none", field |-> "undefined"]
FieldValue(outcome, range, field) ==
  IF outcome = "ok" THEN [range |-> range, field |-> field] ELSE Undefined

\* the text an element gets from a field value
StatFormat(id, v) ==
  CASE id = "total-plays"    -> [fmt |-> "plain", val |-> v]
    [] id = "total-minutes"  -> [fmt |-> "round-locale", val |-> v]
    [] id = "peak-position"  -> [fmt |-> "#_", val |-> v]
    [] id = "avg-gap"        -> [fmt |-> "round_ hours", val |-> v]
    [] id = "longest-streak" -> [fmt |-> "_ days", val |-> v]
    [] id = "peak-day-plays" -> [fmt |-> "plain", val |-> v]
    [] id = "prime-time"     -> [fmt |-> "plain", val |-> v]
    [] id = "repeat-rate"    -> [fmt |-> "_%", val |-> v]

\* the text the template renders into an element
TemplateText(id) ==
  [fmt |-> "template", val |-> [range |-> "page", field |-> FieldOf(id)]]

\* fetch(...) inside loadStats: one more request in flight
loadStats(timeRange) ==
  /\ inflight' = inflight \cup {[id |-> sent + 1, range |-> timeRange]}
  /\ sent' = sent + 1

\* does the awaited fetch/response.json() pair throw into the catch block
Throws(outcome) == outcome \in {"network_error", "http_error_not_json"}

\* the assignments fed from the range of the button clicked last instead of
\* the request's own range
StatsAfterResponseOfLastClick(outcome, range) ==
  IF Throws(outcome)
    THEN statText
    ELSE [id \in StatIds |->
            StatFormat(id, FieldValue(outcome,
                                      IF lastClicked = "none" THEN "last_4_weeks" ELSE lastClicked,
                                      FieldOf(id)))]

\* the body of loadStats after the awaits: the eight assignments, or the
\* catch block that only logs
StatsAfterResponse(outcome, range) ==
  IF Throws(outcome)
    THEN statText
    ELSE [id \in StatIds |-> StatFormat(id, FieldValue(outcome, range, FieldOf(id)))]

\* the click handler without the loop that clears the other buttons
ClassesAfterClickNoClear(btn) ==
  activeBtns \cup {btn}

\* a click on a .time-range-btn: every button loses "active", the clicked
\* one gets it
ClassesAfterClick(btn) ==
  (activeBtns \ RangeBtns) \cup {btn}

StatsInit ==
  /\ activeBtns = {"last_4_weeks"}
  /\ statText = [id \in StatIds |-> TemplateText(id)]
  /\ inflight = {[id |-> 1, range |-> "last_4_weeks"]}
  /\ sent = 1
  /\ completed = 0
  /\ lastOutcome = "none"
  /\ lastClicked = "none"

ClickRange(btn) ==
  /\ sent < MaxRequests
  /\ activeBtns' = ClassesAfterClick(btn)
  /\ loadStats(btn)
  /\ lastClicked' = btn
  /\ UNCHANGED <<statText, completed, lastOutcome>>

\* the promise of one request settles; responses may arrive in any order
StatsResponse(q, outcome) ==
  /\ q \in inflight
  /\ inflight' = inflight \ {q}
  /\ statText' = StatsAfterResponse(outcome, q.range)
  /\ completed' = completed + 1
  /\ lastOutcome' = outcome
  /\ UNCHANGED <<activeBtns, sent, lastClicked>>


(* ======================================================================= *)
(* Podium / list toggle: partials/stats_template.js initializeViewToggle   *)
(* ======================================================================= *)

VARIABLES
  pageRange,      \* the time range the stats page was rendered for
  itemType,       \* data-type of the toggle control
  dataView,       \* data-view attribute of the toggle control
  podiumDisplay,  \* style.display of .podium-view
  listDisplay,    \* style.display of .list-view
  dataLoaded,     \* the closure flag of initializeViewToggle
  listInflight,   \* top-items requests sent and not yet answered
  listSent,       \* every top-items request sent during this page view
  spinnerState,   \* the spinner: "idle", "shown", "hidden" or "error"
  listItems       \* what .card-list-group holds: "empty" or the items' origin

listVars == <<pageRange, itemType, dataView, podiumDisplay, listDisplay,
              dataLoaded, listInflight, listSent, spinnerState, listItems>>

\* the time_range tokens a page can be rendered for
TimeRanges == RangeBtns \cup {"custom"}

ItemTypes == {"artists", "tracks", "albums", "genres"}

\* how a top-items fetch can end: items delivered, a non-2xx status, a body
\* without items, or a rejected promise
ListOutcomes == {"ok", "http_error", "no_items", "network_error"}

\* document.querySelector('.btn-simple[name="time_range"].active'): the
\* Custom button has no name attribute, so on a custom page nothing matches
\* and the default is used
ActiveTimeRange(range) ==
  IF range \in RangeBtns THEN range ELSE "last_4_weeks"

\* the empty .card-list-group of the template
NoItems == [type |-> "none", range |-> "none"]

ListInit ==
  /\ pageRange \in TimeRanges
  /\ itemType \in ItemTypes
  /\ dataView = "podium"
  /\ podiumDisplay = ""
  /\ listDisplay = "none"
  /\ dataLoaded = FALSE
  /\ listInflight = {}
  /\ listSent = <<>>
  /\ spinnerState = "idle"
  /\ listItems = NoItems

\* loadListData: show the spinner and send the request
loadListData(type, timeRange) ==
  /\ spinnerState' = IF spinnerState = "error" THEN "error" ELSE "shown"
  /\ listInflight' = listInflight \cup {[id |-> Len(listSent) + 1, type |-> type, range |-> timeRange]}
  /\ listSent' = Append(listSent, [type |-> type, range |-> timeRange])

\* must a click that switches to the list view fetch the items
NeedsFetch == ~dataLoaded

\* a click handler that shows the list whatever the control says
ViewShownListOnly(currentView) == "list"

\* the view the click handler switches to for the control's data-view
ViewShown(currentView) == IF currentView = "podium" THEN "list" ELSE "podium"

\* click on .toggle-view
ToggleView ==
  IF ViewShown(dataView) = "list"
    THEN /\ podiumDisplay' = "none"
         /\ listDisplay' = "block"
         /\ dataView' = "list"
         /\ IF NeedsFetch
              THEN /\ Len(listSent) < MaxRequests
                   /\ loadListData(itemType, ActiveTimeRange(pageRange))
              ELSE UNCHANGED <<spinnerState, listInflight, listSent>>
         /\ UNCHANGED <<pageRange, itemType, dataLoaded, listItems>>
    ELSE /\ podiumDisplay' = "block"
         /\ listDisplay' = "none"
         /\ dataView' = "podium"
         /\ UNCHANGED <<pageRange, itemType, dataLoaded, listInflight, listSent,
                        spinnerState, listItems>>

\* the .then/.catch chain of loadListData for one request
ListResponse(q, outcome) ==
  /\ q \in listInflight
  /\ listInflight' = listInflight \ {q}
  /\ IF outcome = "ok"
       THEN /\ listItems' = [type |-> q.type, range |-> q.range]
            /\ spinnerState' = "hidden"
            /\ dataLoaded' = TRUE
       ELSE /\ spinnerState' = "error"
            /\ UNCHANGED <<listItems, dataLoaded>>
  /\ UNCHANGED <<pageRange, itemType, dataView, podiumDisplay, listDisplay, listSent>>

(* ======================================================================= *)
(* Table sorters: pages/artist_tracks.js, pages/album.js and the older     *)
(* sorter script.  The page of the model holds two sortable tables, each   *)
(* with a number column and a string column; cell texts are sequences of   *)
(* characters.                                                             *)
(* ======================================================================= *)

VARIABLES
  sorter,       \* the sorter script the page runs
  tbody,        \* the body rows in document order, each [id, cells]
  thClass,      \* the sort markers ("asc", "desc") in each header's class list
  isAscending,  \* album.js: the closure flag of each header
  lastHeader,   \* the header of the first table clicked last, 0 before the first click
  lastAsc,      \* the direction that click handed to the comparer
  tbody2,       \* the body rows of the page's second table
  thClass2,     \* the sort markers of the second table's headers
  isAscending2, \* album.js: the closure flags of the second table's headers
  lastHeader2,  \* the header of the second table clicked last, 0 before the first click
  lastTable     \* the table whose header was clicked last, 0 before the first click

sortVars == <<sorter, tbody, thClass, isAscending, lastHeader, lastAsc,
              tbody2, thClass2, isAscending2, lastHeader2, lastTable>>

\* the sortable tables of the page, in document order
TableIds == {1, 2}

Sorters == {"artist_tracks", "album", "legacy"}

\* header cells of the table and their data-sort attributes
Columns == {1, 2}
SortType(col) == IF col = 1 THEN "number" ELSE "string"

\* texts a cell of the number column may hold, and of the string column
NumberTexts == {<<"1", "0">>, <<"2">>, <<"3", "3">>, <<"N">>}
StringTexts == {<<"a">>, <<"B">>}

IsDigit(c) == c \in {"0", "1", "2", "3", "4", "5", "6", "7", "8", "9"}

DigitValue(c) ==
  CASE c = "0" -> 0 [] c = "1" -> 1 [] c = "2" -> 2 [] c = "3" -> 3 [] c = "4" -> 4
    [] c = "5" -> 5 [] c = "6" -> 6 [] c = "7" -> 7 [] c = "8" -> 8 [] c = "9" -> 9

\* length of the longest prefix of s made of digits
LeadingDigits(s) ==
  CHOOSE n \in 0..Len(s) :
    /\ \A i \in 1..n : IsDigit(s[i])
    /\ n = Len(s) \/ ~IsDigit(s[n + 1])

RECURSIVE DecimalValue(_)
DecimalValue(ds) ==
  IF ds = <<>> THEN 0
  ELSE 10 * DecimalValue(SubSeq(ds, 1, Len(ds) - 1)) + DigitValue(ds[Len(ds)])

NaN == [nan |-> TRUE, v |-> 0]

\* parseFloat on a text without blanks, fraction or exponent: an optional
\* minus sign and the longest run of digits, NaN when there is no digit
parseFloat(s) ==
  LET neg  == Len(s) > 0 /\ s[1] = "-"
      body == IF neg THEN Tail(s) ELSE s
      n    == LeadingDigits(body)
  IN IF n = 0 THEN NaN
     ELSE [nan |-> FALSE,
           v |-> (IF neg THEN -1 ELSE 1) * DecimalValue(SubSeq(body, 1, n))]

\* x || 0 for a number x
OrZero(x) == IF x.nan \/ x.v = 0 THEN 0 ELSE x.v

\* collation weights of a character: punctuation, then digits, then letters
\* in alphabetical order whatever their case; lower case first among equals
PrimaryWeight(c) ==
  CASE c = "-" -> 0
    [] IsDigit(c) -> 1 + DigitValue(c)
    [] c \in {"a", "A"} -> 11
    [] c \in {"b", "B"} -> 12
    [] c \in {"n", "N"} -> 24
CaseWeight(c) == IF c \in {"A", "B", "N"} THEN 1 ELSE 0

\* lexicographic comparison of two sequences of weights: -1, 0 or 1
RECURSIVE LexCompare(_, _)
LexCompare(u, w) ==
  IF u = <<>> /\ w = <<>> THEN 0
  ELSE IF u = <<>> THEN -1
  ELSE IF w = <<>> THEN 1
  ELSE IF Head(u) < Head(w) THEN -1
  ELSE IF Head(u) > Head(w) THEN 1
  ELSE LexCompare(Tail(u), Tail(w))

\* String.prototype.localeCompare: letters first, case to break a tie
localeCompare(a, b) ==
  LET prim == LexCompare([i \in 1..Len(a) |-> PrimaryWeight(a[i])],
                         [i \in 1..Len(b) |-> PrimaryWeight(b[i])])
  IN IF prim # 0 THEN prim
     ELSE LexCompare([i \in 1..Len(a) |-> CaseWeight(a[i])],
                     [i \in 1..Len(b) |-> CaseWeight(b[i])])

getCellValue(tr, idx) == tr.cells[idx]

\* createComparer of artist_tracks.js
ArtistTracksComparer(idx, asc, rowA, rowB) ==
  LET valueA == getCellValue(rowA, idx)
      valueB == getCellValue(rowB, idx)
      directionMultiplier == IF asc THEN 1 ELSE -1
  IN IF SortType(idx) = "number"
       THEN (OrZero(parseFloat(valueA)) - OrZero(parseFloat(valueB))) * directionMultiplier
       ELSE localeCompare(valueA, valueB) * directionMultiplier

\* comparer of the older sorter script: number, else string
LegacyComparer(idx, asc, a, b) ==
  LET v1 == getCellValue(a, idx)
      v2 == getCellValue(b, idx)
  IN IF SortType(idx) = "number"
       THEN (OrZero(parseFloat(v1)) - OrZero(parseFloat(v2))) * (IF asc THEN 1 ELSE -1)
       ELSE localeCompare(v1, v2) * (IF asc THEN 1 ELSE -1)

\* createComparer of album.js: the data-sort attribute is not read; numeric
\* only when both texts are non-empty and parse, else string comparison
AlbumComparer(idx, asc, rowA, rowB) ==
  LET valueA == getCellValue(IF asc THEN rowA ELSE rowB, idx)
      valueB == getCellValue(IF asc THEN rowB ELSE rowA, idx)
      numA == parseFloat(valueA)
      numB == parseFloat(valueB)
  IN IF valueA # <<>> /\ valueB # <<>> /\ ~numA.nan /\ ~numB.nan
       THEN numA.v - numB.v
       ELSE localeCompare(valueA, valueB)

Comparer(script, idx, asc, a, b) ==
  CASE script = "artist_tracks" -> ArtistTracksComparer(idx, asc, a, b)
    [] script = "album"         -> AlbumComparer(idx, asc, a, b)
    [] script = "legacy"        -> LegacyComparer(idx, asc, a, b)

\* x put into the sorted sequence s behind the last row that does not
\* compare greater than it
InsertRow(script, idx, asc, s, x) ==
  LET k == CHOOSE i \in 0..Len(s) :
             /\ \A j \in (i + 1)..Len(s) : Comparer(script, idx, asc, s[j], x) > 0
             /\ i = 0 \/ Comparer(script, idx, asc, s[i], x) <= 0
  IN SubSeq(s, 1, k) \o <<x>> \o SubSeq(s, k + 1, Len(s))

\* Array.prototype.sort with the comparer: a stable sort
RECURSIVE SortRows(_, _, _, _)
SortRows(script, idx, asc, rows) ==
  IF rows = <<>> THEN <<>>
  ELSE InsertRow(script, idx, asc,
                 SortRows(script, idx, asc, SubSeq(rows, 1, Len(rows) - 1)),
                 rows[Len(rows)])

\* the class lists, the closure flags and the body rows of table t
ClassesOf(t) == IF t = 1 THEN thClass ELSE thClass2
FlagsOf(t) == IF t = 1 THEN isAscending ELSE isAscending2
BodyOf(t) == IF t = 1 THEN tbody ELSE tbody2

\* document.querySelector("table") for a header of table t: the first table
\* of the document
firstTable(t) == 1

\* th.closest("table") for a header of table t: the table the header is in
closestTable(t) == t

\* the direction a click on header th of table t sorts by
DirectionOnClick(t, th) ==
  IF sorter = "album" THEN ~FlagsOf(t)[th] ELSE "asc" \notin ClassesOf(t)[th]

\* the sort markers after a click on th when only th's own class list is
\* touched
MarkersAfterClickOnThOnly(t, th, asc) ==
  IF sorter = "album" THEN ClassesOf(t)
  ELSE [ClassesOf(t) EXCEPT ![th] = IF asc THEN {"asc"} ELSE {"desc"}]

\* the sort markers of the headers of th's row (th.parentNode) after a click
\* on th that sorts by direction asc
MarkersAfterClick(t, th, asc) ==
  IF sorter = "album" THEN ClassesOf(t)
  ELSE [h \in Columns |-> IF h = th THEN (IF asc THEN {"asc"} ELSE {"desc"}) ELSE {}]

\* album.js keeps one flag per header and toggles the clicked header's
FlagsAfterClick(t, th) ==
  IF sorter = "album" THEN [FlagsOf(t) EXCEPT ![th] = ~FlagsOf(t)[th]]
  ELSE FlagsOf(t)

\* the tables a page can be rendered with
Tables(n) ==
  {[i \in 1..n |-> [id |-> i, cells |-> <<c[i][1], c[i][2]>>]] :
     c \in [1..n -> NumberTexts \X StringTexts]}

\* the rows the second table is rendered with
OtherTable ==
  <<[id |-> 1, cells |-> <<<<"2">>, <<"a">>>>],
    [id |-> 2, cells |-> <<<<"1", "0">>, <<"B">>>>]>>

SortInit ==
  /\ sorter \in Sorters
  /\ tbody \in UNION {Tables(n) : n \in 1..MaxRows}
  /\ thClass = [h \in Columns |-> {}]
  /\ isAscending = [h \in Columns |-> FALSE]
  /\ lastHeader = 0
  /\ lastAsc = FALSE
  /\ tbody2 = OtherTable
  /\ thClass2 = [h \in Columns |-> {}]
  /\ isAscending2 = [h \in Columns |-> FALSE]
  /\ lastHeader2 = 0
  /\ lastTable = 0

\* click on a th[data-sort] of table t
ClickHeader(t, th) ==
  LET table  == closestTable(t)
      asc    == DirectionOnClick(t, th)
      sorted == SortRows(sorter, th, asc, BodyOf(table))
      marks  == MarkersAfterClick(t, th, asc)
      flags  == FlagsAfterClick(t, th)
  IN /\ tbody' = IF table = 1 THEN sorted ELSE tbody
     /\ tbody2' = IF table = 2 THEN sorted ELSE tbody2
     /\ thClass' = IF t = 1 THEN marks ELSE thClass
     /\ thClass2' = IF t = 2 THEN marks ELSE thClass2
     /\ isAscending' = IF t = 1 THEN flags ELSE isAscending
     /\ isAscending2' = IF t = 2 THEN flags ELSE isAscending2
     /\ lastHeader' = IF t = 1 THEN th ELSE lastHeader
     /\ lastAsc' = IF t = 1 THEN asc ELSE lastAsc
     /\ lastHeader2' = IF t = 2 THEN th ELSE lastHeader2
     /\ lastTable' = t
     /\ UNCHANGED sorter

(* ======================================================================= *)
(* Charts of an item page: partials/item_stats.js, run against the         *)
(* chart.js 3.9.1 that partials/stats_section.html loads                   *)
(* ======================================================================= *)

VARIABLES
  chartCfg,        \* per canvas id: "absent", or what its data element holds
  chartInstances,  \* the registry: canvas id -> chart handle, 0 when unset
  liveCharts,      \* per canvas id: the charts constructed on it and not destroyed
  destroyedCharts, \* handles on which destroy() was called
  chartsMade,      \* number of charts constructed so far
  newChartCalls,   \* per canvas id: how often new Chart(...) was called on it
  chartPc          \* position of the page load in the sequence of chart calls

chartVars == <<chartCfg, chartInstances, liveCharts, destroyedCharts, chartsMade,
               newChartCalls, chartPc>>

\* the createOrUpdateChart calls of the first DOMContentLoaded listener, in order
ChartCalls == <<"streamingTrendChart", "listeningContextChart", "hourlyDistributionChart",
                "durationComparisonChart", "artistTracksChart", "genreDistributionChart",
                "discographyCoverageChart", "albumTracksChart", "albumCoverageChart">>

CanvasIds == {ChartCalls[i] : i \in 1..Len(ChartCalls)}

\* the template renders a canvas together with its data element or neither;
\* the element's text is a JSON object or does not parse
DataKinds == {"object", "bad"}

\* a chart library whose constructor accepts a canvas that carries a chart
CanvasNeverInUse(attached) == FALSE

\* chart.js 3: the constructor throws "Canvas is already in use" when a chart
\* is attached to the canvas
CanvasInUse(attached) == attached # {}

\* a constructor whose handle is not a chart on the canvas
ConstructOnDetached(live, canvasId) == live

\* new Chart(ctx, ...) that succeeds: the new handle is attached to the canvas
ConstructOn(live, canvasId) ==
  [live EXCEPT ![canvasId] = @ \cup {chartsMade + 1}]

\* chart.destroy(): the handle is detached from its canvas
DestroyOn(canvasId, handle) ==
  [liveCharts EXCEPT ![canvasId] = @ \ {handle}]

\* createOrUpdateChart(canvasId, dataId, chartCreator)
createOrUpdateChart(canvasId) ==
  IF chartCfg[canvasId] = "absent"
    THEN UNCHANGED <<chartInstances, liveCharts, destroyedCharts, chartsMade, newChartCalls>>
    ELSE
      LET old       == chartInstances[canvasId]
          afterDest == IF old # 0 THEN DestroyOn(canvasId, old) ELSE liveCharts
          parsed    == chartCfg[canvasId] = "object"
          inUse     == CanvasInUse(afterDest[canvasId])
      IN /\ destroyedCharts' = IF old # 0 THEN destroyedCharts \cup {old} ELSE destroyedCharts
         /\ newChartCalls' = IF parsed THEN [newChartCalls EXCEPT ![canvasId] = @ + 1]
                             ELSE newChartCalls
         /\ IF parsed /\ ~inUse
              THEN /\ liveCharts' = ConstructOn(afterDest, canvasId)
                   /\ chartInstances' = [chartInstances EXCEPT ![canvasId] = chartsMade + 1]
                   /\ chartsMade' = chartsMade + 1
              ELSE /\ liveCharts' = afterDest
                   /\ UNCHANGED <<chartInstances, chartsMade>>

ChartsInit ==
  /\ chartCfg \in [CanvasIds -> {"absent"} \cup DataKinds]
  /\ chartInstances = [c \in CanvasIds |-> 0]
  /\ liveCharts = [c \in CanvasIds |-> {}]
  /\ destroyedCharts = {}
  /\ chartsMade = 0
  /\ newChartCalls = [c \in CanvasIds |-> 0]
  /\ chartPc = 1

\* first listener: the next createOrUpdateChart call
CreateOrUpdateCall ==
  /\ chartPc <= Len(ChartCalls)
  /\ createOrUpdateChart(ChartCalls[chartPc])
  /\ chartPc' = chartPc + 1
  /\ UNCHANGED chartCfg

\* second listener: new Chart on streamingTrendChart inside try/catch, with
\* no look at the registry; its other canvases are not part of an item page
SecondListenerTrend ==
  /\ chartPc = Len(ChartCalls) + 1
  /\ chartPc' = chartPc + 1
  /\ IF chartCfg["streamingTrendChart"] = "object"
       THEN /\ newChartCalls' = [newChartCalls EXCEPT !["streamingTrendChart"] = @ + 1]
            /\ IF CanvasInUse(liveCharts["streamingTrendChart"])
                 THEN UNCHANGED <<liveCharts, chartsMade>>
                 ELSE /\ liveCharts' = ConstructOn(liveCharts, "streamingTrendChart")
                      /\ chartsMade' = chartsMade + 1
       ELSE UNCHANGED <<newChartCalls, liveCharts, chartsMade>>
  /\ UNCHANGED <<chartCfg, chartInstances, destroyedCharts>>

(* ======================================================================= *)
(* Time-range form of the home page (pages/home.js on pages/home.html) and *)
(* of an item page (partials/item_stats.js on partials/stats_section.html),*)
(* in one browser tab whose session storage outlives the documents         *)
(* ======================================================================= *)

VARIABLES
  page,           \* the document shown: "home" or "item"
  loading,        \* the navigation under way, to = "none" when there is none
  pageActive,     \* the time_range the document was rendered for
  customDisplay,  \* style.display of .custom-date-inputs
  jqDisplay,      \* the display value jQuery remembers for .custom-date-inputs
  startDate,      \* value of #start_date
  endDate,        \* value of #end_date
  errorEl,        \* the newest .alert-danger element inside .custom-date-inputs
  errorCount,     \* how many .alert-danger elements .custom-date-inputs holds
  storage,        \* the scrollPosition entry of sessionStorage
  scrollY,        \* window.scrollY
  cssHides,       \* a stylesheet rule of the home page hides .custom-date-inputs
  jqFirst,        \* jQuery's click handlers were registered before home.js's
  lastEvent       \* the last thing that happened in the tab

pageVars == <<page, loading, pageActive, customDisplay, jqDisplay, startDate, endDate,
              errorEl, errorCount, storage, scrollY, cssHides, jqFirst, lastEvent>>

\* what a date field can hold: nothing, a text that is no date, a day
FieldValues ==
  {[kind |-> "empty", day |-> 0], [kind |-> "text", day |-> 0]}
    \cup {[kind |-> "date", day |-> d] : d \in 1..MaxDay}

\* new Date(value).getTime(): midnight UTC of the day, NaN for any other text
DateTime(value) ==
  IF value.kind = "date" THEN [nan |-> FALSE, v |-> value.day * TicksPerDay] ELSE NaN

\* new Date().getTime(): some time in the course of the last day but one
Now == TicksPerDay * (MaxDay - 1) + 1

NoError == [present |-> FALSE, text |-> "", display |-> "none"]
NoNav == [to |-> "none", range |-> "none", cause |-> "none"]
NoEntry == [set |-> FALSE, y |-> 0]
NoEvent == [kind |-> "none", range |-> "none", result |-> "none", hiddenBefore |-> FALSE]

\* is an element with this inline display hidden
Hidden(display, css) == display = "none" \/ (display = "" /\ css)

\* the validation of the home page's submit listener with the end date's
\* future check left out
HomeValidationNoEndCheck(start, end) ==
  IF start.kind = "empty" \/ end.kind = "empty"
    THEN "Both start date and end date are required."
  ELSE IF DateTime(start).nan \/ DateTime(end).nan
    THEN "Please enter valid dates in YYYY-MM-DD format."
  ELSE IF DateTime(start).v > Now
    THEN "Dates cannot be in the future."
  ELSE IF DateTime(start).v > DateTime(end).v
    THEN "Start date must be before end date."
  ELSE "ok"

\* the validation checks of the home page's submit listener: the message of
\* the first check that fails, "ok" when all pass
HomeValidation(start, end) ==
  IF start.kind = "empty" \/ end.kind = "empty"
    THEN "Both start date and end date are required."
  ELSE IF DateTime(start).nan \/ DateTime(end).nan
    THEN "Please enter valid dates in YYYY-MM-DD format."
  ELSE IF DateTime(start).v > Now \/ DateTime(end).v > Now
    THEN "Dates cannot be in the future."
  ELSE IF DateTime(start).v > DateTime(end).v
    THEN "Start date must be before end date."
  ELSE "ok"

\* a submit listener that leaves the old error element in place
AfterNoRemoval(count) == count

\* existingError.remove(): the first .alert-danger of the area, if there is
\* one, is taken out
AfterRemoval(count) == IF count > 0 THEN count - 1 ELSE count

\* the submit listener of the home page's form, for a submission that asks
\* for `range`: a fresh error element replaces the old one; a failed check
\* cancels the submission, a passed validation saves the scroll offset
HomeSubmit(range, kind, store) ==
  LET verdict == HomeValidation(startDate, endDate)
  IN /\ errorEl' = IF verdict = "ok"
                     THEN [present |-> TRUE, text |-> "", display |-> "none"]
                     ELSE [present |-> TRUE, text |-> verdict, display |-> "block"]
     /\ errorCount' = AfterRemoval(errorCount) + 1
     /\ storage' = IF verdict = "ok" THEN [set |-> TRUE, y |-> scrollY] ELSE store
     /\ loading' = IF verdict = "ok"
                     THEN [to |-> "home", range |-> range, cause |-> kind]
                     ELSE NoNav
     /\ lastEvent' = [kind |-> kind, range |-> range,
                      result |-> IF verdict = "ok" THEN "submitted" ELSE "cancelled",
                      hiddenBefore |-> Hidden(customDisplay, cssHides)]

\* the Custom button's listener of home.js
HomeToggle(display) ==
  IF display = "none" \/ display = "" THEN "block" ELSE "none"

\* jQuery .toggle(): show a hidden element (back to the remembered display,
\* else to the stylesheet's, else to block), hide a visible one
jqToggle(display, remembered) ==
  IF Hidden(display, cssHides)
    THEN IF display = "none" /\ remembered # "" THEN remembered
         ELSE IF cssHides THEN "block" ELSE ""
    ELSE "none"

\* what jQuery remembers after .hide() or .toggle() on this display
jqRemember(display, remembered) ==
  IF ~Hidden(display, cssHides) /\ display # "none" THEN display ELSE remembered

\* the two listeners of each Custom button of an item page
ItemToggle(display) ==
  IF display = "none" THEN "block" ELSE "none"

PagesInit ==
  /\ page = "home"
  /\ loading = NoNav
  /\ pageActive \in TimeRanges
  /\ customDisplay = IF pageActive = "custom" THEN "block" ELSE "none"
  /\ jqDisplay = ""
  /\ startDate \in FieldValues
  /\ endDate \in FieldValues
  /\ errorEl = NoError
  /\ errorCount = 0
  /\ storage = NoEntry
  /\ scrollY = 0
  /\ cssHides \in BOOLEAN
  /\ jqFirst \in BOOLEAN
  /\ lastEvent = NoEvent

Idle == loading = NoNav

\* the user scrolls the window
Scroll(y) ==
  /\ Idle
  /\ y # scrollY
  /\ scrollY' = y
  /\ lastEvent' = [NoEvent EXCEPT !.kind = "scroll"]
  /\ UNCHANGED <<page, loading, pageActive, customDisplay, jqDisplay, startDate, endDate,
                 errorEl, errorCount, storage, cssHides, jqFirst>>

\* the user types into the date fields, which must be on screen
EditDates(start, end) ==
  /\ Idle
  /\ page = "home"
  /\ ~Hidden(customDisplay, cssHides)
  /\ <<start, end>> # <<startDate, endDate>>
  /\ startDate' = start
  /\ endDate' = end
  /\ lastEvent' = [NoEvent EXCEPT !.kind = "edit"]
  /\ UNCHANGED <<page, loading, pageActive, customDisplay, jqDisplay, errorEl, errorCount, storage,
                 scrollY, cssHides, jqFirst>>

\* click on #customRangeBtn of the home page: the listener of
\* initializeCustomDateRange and the jQuery listener, in registration order
ClickCustomHome ==
  /\ Idle
  /\ page = "home"
  /\ LET afterFirst == IF jqFirst THEN jqToggle(customDisplay, jqDisplay)
                       ELSE HomeToggle(customDisplay)
         remFirst   == IF jqFirst THEN jqRemember(customDisplay, jqDisplay) ELSE jqDisplay
     IN /\ customDisplay' = IF jqFirst THEN HomeToggle(afterFirst)
                            ELSE jqToggle(afterFirst, remFirst)
        /\ jqDisplay' = IF jqFirst THEN remFirst ELSE jqRemember(afterFirst, remFirst)
  /\ lastEvent' = [NoEvent EXCEPT !.kind = "custom",
                                  !.hiddenBefore = Hidden(customDisplay, cssHides)]
  /\ UNCHANGED <<page, loading, pageActive, startDate, endDate, errorEl, errorCount, storage,
                 scrollY, cssHides, jqFirst>>

\* click on a fixed-range submit button of the home page: both listeners
\* hide the custom inputs, then the form's submit listener runs
ClickFixedHome(range) ==
  /\ Idle
  /\ page = "home"
  /\ customDisplay' = "none"
  /\ jqDisplay' = IF jqFirst THEN jqRemember(customDisplay, jqDisplay) ELSE jqDisplay
  /\ HomeSubmit(range, "fixed", storage)
  /\ UNCHANGED <<page, pageActive, startDate, endDate, scrollY, cssHides, jqFirst>>

\* click on Apply, which is inside .custom-date-inputs: its click listener
\* saves the scroll offset when form.checkValidity() holds, which it does
\* for a form without constraints; then the submit listener runs
ClickApply ==
  /\ Idle
  /\ page = "home"
  /\ ~Hidden(customDisplay, cssHides)
  /\ HomeSubmit("custom", "apply", [set |-> TRUE, y |-> scrollY])
  /\ UNCHANGED <<page, pageActive, customDisplay, jqDisplay, startDate, endDate,
                 scrollY, cssHides, jqFirst>>

\* click on #customRangeBtn of an item page: both DOMContentLoaded listeners
\* of partials/item_stats.js registered a toggle
ClickCustomItem ==
  /\ Idle
  /\ page = "item"
  /\ customDisplay' = ItemToggle(ItemToggle(customDisplay))
  /\ lastEvent' = [NoEvent EXCEPT !.kind = "custom",
                                  !.hiddenBefore = Hidden(customDisplay, FALSE)]
  /\ UNCHANGED <<page, loading, pageActive, jqDisplay, startDate, endDate, errorEl, errorCount,
                 storage, scrollY, cssHides, jqFirst>>

\* click on a fixed-range button of an item page: the submission is
\* prevented, the scroll offset saved and location.href set
ClickFixedItem(range) ==
  /\ Idle
  /\ page = "item"
  /\ storage' = [set |-> TRUE, y |-> scrollY]
  /\ loading' = [to |-> "item", range |-> range, cause |-> "fixed"]
  /\ lastEvent' = [kind |-> "fixed", range |-> range, result |-> "navigated",
                   hiddenBefore |-> Hidden(customDisplay, FALSE)]
  /\ UNCHANGED <<page, pageActive, customDisplay, jqDisplay, startDate, endDate, errorEl, errorCount,
                 scrollY, cssHides, jqFirst>>

\* the user follows a link to the other kind of page
FollowLink ==
  /\ Idle
  /\ loading' = [to |-> IF page = "home" THEN "item" ELSE "home",
                 range |-> "last_4_weeks", cause |-> "link"]
  /\ lastEvent' = [NoEvent EXCEPT !.kind = "link"]
  /\ UNCHANGED <<page, pageActive, customDisplay, jqDisplay, startDate, endDate, errorEl, errorCount,
                 storage, scrollY, cssHides, jqFirst>>

\* the home page arrives: initializeCustomDateRange shows the custom inputs
\* only when Custom is the active range; nothing reads the storage
LoadHome(start, end) ==
  /\ loading.to = "home"
  /\ page' = "home"
  /\ pageActive' = loading.range
  /\ customDisplay' = IF loading.range = "custom" THEN "block" ELSE "none"
  /\ jqDisplay' = ""
  /\ startDate' = start
  /\ endDate' = end
  /\ errorEl' = NoError
  /\ errorCount' = 0
  /\ scrollY' = 0
  /\ loading' = NoNav
  /\ lastEvent' = [kind |-> "load", range |-> loading.cause, result |-> "kept",
                   hiddenBefore |-> FALSE]
  /\ UNCHANGED <<storage, cssHides, jqFirst>>

\* an item page arrives: the first listener of partials/item_stats.js
\* scrolls to a stored offset and removes the entry
LoadItem ==
  /\ loading.to = "item"
  /\ page' = "item"
  /\ pageActive' = loading.range
  /\ customDisplay' = "none"
  /\ jqDisplay' = ""
  /\ startDate' = [kind |-> "empty", day |-> 0]
  /\ endDate' = [kind |-> "empty", day |-> 0]
  /\ errorEl' = NoError
  /\ errorCount' = 0
  /\ scrollY' = IF storage.set THEN storage.y ELSE 0
  /\ storage' = NoEntry
  /\ loading' = NoNav
  /\ lastEvent' = [kind |-> "load", range |-> loading.cause,
                   result |-> IF storage.set THEN "restored" ELSE "kept",
                   hiddenBefore |-> FALSE]
  /\ UNCHANGED <<cssHides, jqFirst>>

(* ======================================================================= *)
(* Releases of an artist page: pages/artist.js (and the older artist.js)   *)
(* ======================================================================= *)

VARIABLES
  relFetched,     \* data.releases as the releases endpoint returns it
  currentType,    \* the closure variable currentType
  relActive,      \* the [data-type] buttons that carry the active class
  relInflight,    \* loadReleases calls waiting at their fetch
  relSent,        \* loadReleases calls made during this page view
  relContainer,   \* what #releases-container holds
  relLatest,      \* what #latest-releases-container holds
  relSpinner,     \* style.display of the spinner
  relLast         \* the loadReleases call that finished last, and how

relVars == <<relFetched, currentType, relActive, relInflight, relSent,
             relContainer, relLatest, relSpinner, relLast>>

\* data-artist-id of #releases-container, and another artist
ThisArtist == "A123"
OtherArtist == "B456"

ReleaseTabs == {"all", "album", "single", "compilation"}
AlbumTypes == {"album", "single", "compilation", "appears_on"}

\* release_date comes with year, month or day precision
ReleaseDates == {"2019-12", "2020", "2020-01-02"}

Release(album_type, artists, release_date) ==
  [album_type |-> album_type, artists |-> artists, release_date |-> release_date]

\* the releases discographies are made of: every album type, the page's
\* artist credited first or behind another artist, every date
Releases ==
  {Release("album", <<ThisArtist>>, "2020-01-02"),
   Release("album", <<OtherArtist, ThisArtist>>, "2019-12"),
   Release("single", <<ThisArtist>>, "2020"),
   Release("compilation", <<ThisArtist>>, "2019-12"),
   Release("compilation", <<OtherArtist, ThisArtist>>, "2020-01-02"),
   Release("compilation", <<OtherArtist, ThisArtist>>, "2019-12"),
   Release("appears_on", <<OtherArtist, ThisArtist>>, "2020")}

\* new Date(release_date) in days since 2019-12-01: a missing month or day
\* is the first one
DateOf(release_date) ==
  CASE release_date = "2019-12" -> 0
    [] release_date = "2020" -> 31
    [] release_date = "2020-01-02" -> 32

\* Array.prototype.filter: the elements of s the callback keeps, in the
\* order of s; kept is the set of elements the callback answers true for
RECURSIVE Filter(_, _)
Filter(kept, s) ==
  IF s = <<>> THEN <<>>
  ELSE IF Head(s) \in kept THEN <<Head(s)>> \o Filter(kept, Tail(s))
       ELSE Filter(kept, Tail(s))

\* the callback of filterReleasesByType without the ownership test of the
\* "all" tab
KeepReleaseAnyCompilation(release, type, artistId) ==
  IF type = "all"
    THEN release.album_type # "appears_on"
    ELSE IF type = "compilation"
      THEN release.album_type = "compilation" /\ release.artists[1] = artistId
      ELSE release.album_type = type

\* the callback of filterReleasesByType
KeepRelease(release, type, artistId) ==
  IF type = "all"
    THEN IF release.album_type = "compilation"
           THEN release.artists[1] = artistId
           ELSE release.album_type # "appears_on"
    ELSE IF type = "compilation"
      THEN release.album_type = "compilation" /\ release.artists[1] = artistId
      ELSE release.album_type = type

filterReleasesByType(releases, type, artistId) ==
  LET kept == {releases[i] : i \in {j \in 1..Len(releases) :
                                         KeepRelease(releases[j], type, artistId)}}
  IN Filter(kept, releases)

\* the length .slice(0, 10) cuts the latest releases to
LatestLimit == 10

\* the callback without the ownership test
KeepLatestAnyCompilation(release, artistId) == TRUE

\* the callback of the filter of renderLatestReleases
KeepLatest(release, artistId) ==
  IF release.album_type = "compilation"
    THEN release.artists[1] = artistId
    ELSE TRUE

\* (a, b) => new Date(b.release_date) - new Date(a.release_date)
LatestComparer(a, b) == DateOf(b.release_date) - DateOf(a.release_date)

\* x put into the sorted sequence s behind the last release that does not
\* compare greater than it
InsertRelease(s, x) ==
  LET k == CHOOSE i \in 0..Len(s) :
             /\ \A j \in (i + 1)..Len(s) : LatestComparer(s[j], x) > 0
             /\ i = 0 \/ LatestComparer(s[i], x) <= 0
  IN SubSeq(s, 1, k) \o <<x>> \o SubSeq(s, k + 1, Len(s))

\* Array.prototype.sort with LatestComparer: a stable sort
RECURSIVE SortLatest(_)
SortLatest(releases) ==
  IF releases = <<>> THEN <<>>
  ELSE InsertRelease(SortLatest(SubSeq(releases, 1, Len(releases) - 1)),
                     releases[Len(releases)])

\* Array.prototype.slice(0, end)
Slice(s, end) == SubSeq(s, 1, IF Len(s) < end THEN Len(s) ELSE end)

\* the sortedReleases of renderLatestReleases
renderLatestReleases(releases, artistId) ==
  LET kept == {releases[i] : i \in {j \in 1..Len(releases) :
                                         KeepLatest(releases[j], artistId)}}
  IN Slice(SortLatest(Filter(kept, releases)), LatestLimit)

\* how a releases fetch can end: a 2xx answer with the releases, a non-2xx
\* status, or a rejected promise
RelOutcomes == {"ok", "http_error", "network_error"}

NoRelCall == [type |-> "none", outcome |-> "none"]
Container(kind, type, items) == [kind |-> kind, type |-> type, items |-> items]
TemplateContainer == Container("template", "none", <<>>)

\* a discography: a run of studio albums of one date followed by a few
\* releases of any kind
StudioAlbum == Release("album", <<ThisArtist>>, "2020")
Catalogues ==
  LET tails == UNION {[1..n -> Releases] : n \in 0..MaxReleases}
  IN {[i \in 1..n |-> StudioAlbum] \o tail : n \in {0, LatestLimit}, tail \in tails}

\* loadReleases up to its fetch
loadReleases(type) ==
  /\ relSpinner' = "block"
  /\ relContainer' = Container("cleared", "none", <<>>)
  /\ relInflight' = relInflight \cup {[id |-> relSent + 1, type |-> type]}
  /\ relSent' = relSent + 1

\* the page after the DOMContentLoaded handler: the album button marked and
\* loadReleases("album") waiting at its fetch
ReleasesInit ==
  /\ relFetched \in Catalogues
  /\ currentType = "album"
  /\ relActive = {"album"}
  /\ relInflight = {[id |-> 1, type |-> "album"]}
  /\ relSent = 1
  /\ relContainer = Container("cleared", "none", <<>>)
  /\ relLatest = TemplateContainer
  /\ relSpinner = "block"
  /\ relLast = NoRelCall

\* click on a [data-type] filter button
ClickFilter(type) ==
  /\ type # currentType
  /\ relSent < MaxRelRequests
  /\ relActive' = {type}
  /\ currentType' = type
  /\ loadReleases(type)
  /\ UNCHANGED <<relFetched, relLatest, relLast>>

\* loadReleases from the answer of its fetch to its finally block
ReleasesResponse(q, outcome) ==
  /\ q \in relInflight
  /\ relInflight' = relInflight \ {q}
  /\ relSpinner' = "none"
  /\ relLast' = [type |-> q.type, outcome |-> outcome]
  /\ IF outcome = "ok"
       THEN LET filteredReleases == filterReleasesByType(relFetched, q.type, ThisArtist)
            IN /\ relLatest' = Container("list", "none",
                                         renderLatestReleases(relFetched, ThisArtist))
               /\ relContainer' =
                    IF filteredReleases = <<>>
                      THEN Container("empty_message", q.type, <<>>)
                      ELSE Container("list", "none", filteredReleases)
       ELSE /\ relContainer' = Container("error", "none", <<>>)
            /\ UNCHANGED relLatest
  /\ UNCHANGED <<relFetched, currentType, relActive, relSent>>

(* ======================================================================= *)
(* Chat widget: the native submit handler and the jQuery click handler of  *)
(* the chat script, each on a page of its own                              *)
(* ======================================================================= *)

VARIABLES
  chatImpl,       \* which handler serves the page: "native" or "jquery"
  userInput,      \* value of #userInput
  chatLog,        \* the message elements of the message list, in order
  chatInflight,   \* POSTs sent and not yet answered
  chatPosts,      \* every POST sent to the chat endpoint, in order
  chatSubmits,    \* submissions whose trimmed text was not empty
  loadingIndicator \* style.display of #loadingIndicator

chatVars == <<chatImpl, userInput, chatLog, chatInflight, chatPosts, chatSubmits,
              loadingIndicator>>

ChatImpls == {"native", "jquery"}

\* texts a user can type, as sequences of characters
InputTexts == {<<>>, <<" ">>, <<"h", "i">>, <<" ", "h", "i", " ">>, <<"o", " ", "k">>}

\* String.prototype.trim
RECURSIVE TrimStart(_)
TrimStart(s) == IF s # <<>> /\ Head(s) = " " THEN TrimStart(Tail(s)) ELSE s
RECURSIVE TrimEnd(_)
TrimEnd(s) ==
  IF s # <<>> /\ s[Len(s)] = " " THEN TrimEnd(SubSeq(s, 1, Len(s) - 1)) ELSE s
Trim(s) == TrimEnd(TrimStart(s))

\* how a POST can end: 2xx with {reply}, non-2xx with {error}, non-2xx with a
\* JSON body without error field, non-2xx with a body that is not JSON, or no
\* answer at all
ChatOutcomes == {"ok", "http_error_json", "http_error_no_field", "http_error_not_json",
                 "network_error"}

\* a message element: who sent it, what its text is made of, and the
\* submission it belongs to
Message(sender, kind, text, of) ==
  [sender |-> sender, kind |-> kind, text |-> text, of |-> of]

\* the success callback without its reply branch
JQueryBotTextNoReply(outcome) ==
  IF outcome = "ok" THEN "none" ELSE "generic_error"

\* the text of the bot message the jQuery callbacks display: success shows
\* response.reply, error shows the generic text
JQueryBotText(outcome) ==
  IF outcome = "ok" THEN "reply" ELSE "generic_error"

\* the text of the bot message the native handler appends: data.reply on
\* response.ok, data.error || "An error occurred." otherwise, the generic
\* text from the catch block
NativeBotText(outcome) ==
  CASE outcome = "ok" -> "reply"
    [] outcome = "http_error_json" -> "error_field"
    [] outcome = "http_error_no_field" -> "generic_error"
    [] outcome \in {"http_error_not_json", "network_error"} -> "generic_error"

BotText(impl, outcome) ==
  IF impl = "native" THEN NativeBotText(outcome) ELSE JQueryBotText(outcome)

ChatInit ==
  /\ chatImpl \in ChatImpls
  /\ userInput = <<>>
  /\ chatLog = <<>>
  /\ chatInflight = {}
  /\ chatPosts = <<>>
  /\ chatSubmits = 0
  /\ loadingIndicator = "none"

\* the user edits #userInput
TypeText(text) ==
  /\ text # userInput
  /\ userInput' = text
  /\ UNCHANGED <<chatImpl, chatLog, chatInflight, chatPosts, chatSubmits, loadingIndicator>>

\* submit of #chatForm (native) or click on #sendButton (jQuery)
SubmitChat ==
  LET message == Trim(userInput)
      id == chatSubmits + 1
  IN /\ message # <<>>
     /\ chatSubmits < MaxChats
     /\ chatLog' = Append(chatLog, Message("user", "typed", message, id))
     /\ userInput' = <<>>
     /\ loadingIndicator' = "block"
     /\ chatPosts' = Append(chatPosts, [message |-> message, of |-> id])
     /\ chatInflight' = chatInflight \cup {[id |-> id, message |-> message]}
     /\ chatSubmits' = id
     /\ UNCHANGED chatImpl

\* the answer of one POST is handled
ChatResponse(q, outcome) ==
  LET text == BotText(chatImpl, outcome)
  IN /\ q \in chatInflight
     /\ chatInflight' = chatInflight \ {q}
     /\ loadingIndicator' = "none"
     /\ chatLog' = IF text = "none" THEN chatLog
                   ELSE Append(chatLog, Message("bot", text, <<>>, q.id))
     /\ UNCHANGED <<chatImpl, userInput, chatPosts, chatSubmits>>

(* ======================================================================= *)
(* Charts of a stats page: initializeCharts of partials/stats_template.js  *)
(* on pages/artist_stats.html and its sibling pages                        *)
(* ======================================================================= *)

VARIABLES
  tplCfg,        \* per chart: what its initializer found on the page
  tplInstances,  \* the registry chartInstances of the script, per chart
  tplPc,         \* position of initializeCharts in its list of initializers
  tplEscaped     \* has an error escaped an initializer

tplVars == <<tplCfg, tplInstances, tplPc, tplEscaped>>

\* Object.values(chartInitializers), in order
TplCharts == <<"streamingTrend", "radar", "doughnut", "polar", "bubble", "discovery",
               "stacked", "bar">>

TplChartIds == {TplCharts[i] : i \in 1..Len(TplCharts)}

\* what an initializer can find: no canvas, a canvas without data element, or
\* a data element whose text is the payload as a JSON object, the payload
\* JSON-encoded a second time (a JSON string), or text that does not parse
TplFindings == {"no_canvas", "no_data", "object", "string", "bad"}

\* is the statement of chart's initializer that can throw inside its try block
InTryNever(chart) == FALSE

InTry(chart) == TRUE

\* JSON.parse(dataElement.textContent): does it throw
ParseThrows(found) == found = "bad"

\* what the statements after JSON.parse can make of a parsed JSON string:
\* "none" when they create no chart or throw, "junk" when the library makes a
\* chart of a configuration that is not the payload
OnString(chart) ==
  CASE chart = "streamingTrend" -> {"none"}      \* typeof chartData === "object" fails
    [] chart = "doughnut" -> {"none"}            \* chartData.data.datasets throws
    [] OTHER -> {"none", "junk"}                 \* new Chart on a string or its spread

\* what an initializer leaves in the registry for a page finding
InitializerResults(chart, found) ==
  CASE found \in {"no_canvas", "no_data", "bad"} -> {"none"}
    [] found = "object" -> {"chart"}
    [] found = "string" -> OnString(chart)

TplInit ==
  /\ tplCfg = [c \in TplChartIds |-> "unseen"]
  /\ tplInstances = [c \in TplChartIds |-> "none"]
  /\ tplPc = 1
  /\ tplEscaped = FALSE

\* the next initializer of initializeCharts runs on what the page holds for it
InitializeChart(found, result) ==
  LET chart == TplCharts[tplPc]
  IN /\ tplPc <= Len(TplCharts)
     /\ ~tplEscaped
     /\ result \in InitializerResults(chart, found)
     /\ tplCfg' = [tplCfg EXCEPT ![chart] = found]
     /\ tplInstances' = [tplInstances EXCEPT ![chart] = result]
     /\ IF (ParseThrows(found) \/ (found = "string" /\ result = "none"
                                   /\ chart # "streamingTrend"))
           /\ ~InTry(chart)
          THEN /\ tplEscaped' = TRUE
               /\ tplPc' = Len(TplCharts) + 1
          ELSE /\ tplEscaped' = FALSE
               /\ tplPc' = tplPc + 1

(* ======================================================================= *)
(* Track previews of a track page: pages/track.js on the track template    *)
(* ======================================================================= *)

VARIABLES
  prevDisabled,   \* the disabled property of #showPreviewsBtn
  prevText,       \* textContent of #showPreviewsBtn
  prevInflight,   \* preview requests sent and not yet answered
  prevSent,       \* preview requests sent during this page view
  prevLoaded,     \* have the placeholders been filled by updateTrackPreviews
  prevLast        \* how the request answered last ended

prevVars == <<prevDisabled, prevText, prevInflight, prevSent, prevLoaded, prevLast>>

\* how a preview request can end: 2xx with the preview urls, a non-2xx status,
\* a body that is not JSON, or a rejected promise
PreviewOutcomes == {"ok", "http_error", "not_json", "network_error"}

\* the tag of #showPreviewsBtn in the track template
ShowPreviewsTag == "p"

\* the browser dispatches no click event to a disabled form control; on any
\* other element disabled is a plain property without effect
ClickReaches(disabled) ==
  ~(ShowPreviewsTag \in {"button", "input", "select", "textarea"} /\ disabled)

PreviewsInit ==
  /\ prevDisabled = FALSE
  /\ prevText = "Show previews"
  /\ prevInflight = {}
  /\ prevSent = 0
  /\ prevLoaded = FALSE
  /\ prevLast = "none"

\* click on #showPreviewsBtn: the handler up to the fetch of loadTrackPreviews
ClickShowPreviews ==
  /\ ClickReaches(prevDisabled)
  /\ prevSent < MaxPreviewRequests
  /\ prevDisabled' = TRUE
  /\ prevText' = "Loading..."
  /\ prevInflight' = prevInflight \cup {prevSent + 1}
  /\ prevSent' = prevSent + 1
  /\ UNCHANGED <<prevLoaded, prevLast>>

\* loadTrackPreviews from the answer of its fetch on
PreviewResponse(q, outcome) ==
  /\ q \in prevInflight
  /\ prevInflight' = prevInflight \ {q}
  /\ prevLast' = outcome
  /\ IF outcome = "ok"
       THEN /\ prevLoaded' = TRUE
            /\ prevText' = "Previews Loaded"
            /\ UNCHANGED prevDisabled
       ELSE /\ prevText' = "Error Loading Previews"
            /\ prevDisabled' = FALSE
            /\ UNCHANGED prevLoaded
  /\ UNCHANGED prevSent

(* ======================================================================= *)
(* Import and deletion of the listening history: static/js/base.js (the    *)
(* XMLHttpRequest version) and its fetch rewrite                           *)
(* ======================================================================= *)

VARIABLES
  baseScript,         \* which version of the script the page runs
  basePage,           \* "open", or "left" once the page navigated or reloaded
  totalFiles,         \* files.length of the submitted import, 0 before it
  completedFiles,     \* the counter of the submit handler's closure
  uploads,            \* per file: "inflight" or the way its request ended
  loadingMessage,     \* what #loadingMessage holds
  completionShown,    \* how often the completion message was written
  redirectsScheduled, \* how often the redirect timer was set
  delConfirmed,       \* confirm dialogs the user answered with OK
  delDeclined,        \* confirm dialogs the user cancelled
  delSent,            \* delete requests sent
  delInflight,        \* delete requests sent and not yet answered
  reloads             \* calls of window.location.reload()

baseVars == <<baseScript, basePage, totalFiles, completedFiles, uploads,
              loadingMessage, completionShown, redirectsScheduled,
              delConfirmed, delDeclined, delSent, delInflight, reloads>>

BaseScripts == {"fetch", "xhr"}

\* how a request of the scripts can end: status 200, another 2xx status, an
\* error status, or no response at all
HttpOutcomes == {"200", "201", "500", "network_error"}

\* a handler that counts every response as a finished upload
AcceptsEveryResponse(script, outcome) == outcome # "network_error"

\* does the script take the response for a success: response.ok of the
\* fetch version, xhr.status === 200 of the XMLHttpRequest version
Accepts(script, outcome) ==
  IF script = "fetch" THEN outcome \in {"200", "201"} ELSE outcome = "200"

\* does the script get to handle the end of the request at all: the
\* XMLHttpRequest upload listens to "load" only
UploadHandled(script, outcome) ==
  outcome # "network_error" \/ script = "fetch"

BaseInit ==
  /\ baseScript \in BaseScripts
  /\ basePage = "open"
  /\ totalFiles = 0
  /\ completedFiles = 0
  /\ uploads = <<>>
  /\ loadingMessage = "hidden"
  /\ completionShown = 0
  /\ redirectsScheduled = 0
  /\ delConfirmed = 0
  /\ delDeclined = 0
  /\ delSent = 0
  /\ delInflight = 0
  /\ reloads = 0

\* submit of #importHistoryForm with n files selected
SubmitImport(n) ==
  /\ basePage = "open"
  /\ uploads = <<>>
  /\ baseScript = "fetch" => n # 0
  /\ totalFiles' = n
  /\ completedFiles' = 0
  /\ loadingMessage' = "loading"
  /\ uploads' = [f \in 1..n |-> "inflight"]
  /\ UNCHANGED <<baseScript, basePage, completionShown, redirectsScheduled,
                 delConfirmed, delDeclined, delSent, delInflight, reloads>>

\* the request of file f ends: updateProgress on success, the error message
\* on a failure the script handles
UploadResponse(f, outcome) ==
  /\ basePage = "open"
  /\ f \in 1..Len(uploads)
  /\ uploads[f] = "inflight"
  /\ uploads' = [uploads EXCEPT ![f] = outcome]
  /\ IF Accepts(baseScript, outcome)
       THEN /\ completedFiles' = completedFiles + 1
            /\ IF completedFiles + 1 = totalFiles
                 THEN /\ loadingMessage' = "completed"
                      /\ completionShown' = completionShown + 1
                      /\ redirectsScheduled' = redirectsScheduled + 1
                 ELSE UNCHANGED <<loadingMessage, completionShown, redirectsScheduled>>
       ELSE /\ loadingMessage' = IF UploadHandled(baseScript, outcome)
                                   THEN "error" ELSE loadingMessage
            /\ UNCHANGED <<completedFiles, completionShown, redirectsScheduled>>
  /\ UNCHANGED <<baseScript, basePage, totalFiles,
                 delConfirmed, delDeclined, delSent, delInflight, reloads>>

\* the timer set by updateProgress fires: the page goes to the redirect url
RedirectFires ==
  /\ basePage = "open"
  /\ redirectsScheduled > 0
  /\ basePage' = "left"
  /\ UNCHANGED <<baseScript, totalFiles, completedFiles, uploads, loadingMessage,
                 completionShown, redirectsScheduled,
                 delConfirmed, delDeclined, delSent, delInflight, reloads>>

\* does the submit handler of #deleteHistoryForm open a confirm dialog
AsksConfirmation(script) == script = "fetch"

\* submit of #deleteHistoryForm; answer is what the user does with the
\* confirm dialog when there is one
SubmitDelete(answer) ==
  /\ basePage = "open"
  /\ delSent + delDeclined < MaxDeletes
  /\ IF AsksConfirmation(baseScript)
       THEN IF answer
              THEN /\ delConfirmed' = delConfirmed + 1
                   /\ delSent' = delSent + 1
                   /\ delInflight' = delInflight + 1
                   /\ UNCHANGED delDeclined
              ELSE /\ delDeclined' = delDeclined + 1
                   /\ UNCHANGED <<delConfirmed, delSent, delInflight>>
       ELSE /\ delSent' = delSent + 1
            /\ delInflight' = delInflight + 1
            /\ UNCHANGED <<delConfirmed, delDeclined>>
  /\ UNCHANGED <<baseScript, basePage, totalFiles, completedFiles, uploads,
                 loadingMessage, completionShown, redirectsScheduled, reloads>>

\* a delete request ends: alert and reload on success, an alert otherwise
DeleteResponse(outcome) ==
  /\ basePage = "open"
  /\ delInflight > 0
  /\ delInflight' = delInflight - 1
  /\ IF Accepts(baseScript, outcome)
       THEN /\ reloads' = reloads + 1
            /\ basePage' = "left"
       ELSE UNCHANGED <<reloads, basePage>>
  /\ UNCHANGED <<baseScript, totalFiles, completedFiles, uploads, loadingMessage,
                 completionShown, redirectsScheduled,
                 delConfirmed, delDeclined, delSent>>

(* ======================================================================= *)
(* Chat page with both implementations attached: the send button is the    *)
(* submit button of #chatForm, so a click runs the jQuery click handler    *)
(* and then, as the click's default action, the form's submit handler      *)
(* ======================================================================= *)

VARIABLES
  dualScript,     \* the copy of the chat script the page loads
  dualContainer,  \* does the page have a #chat-container element
  dualInput,      \* value of #userInput
  dualClicks,     \* clicks on #sendButton so far
  dualTyped,      \* per click: the value of #userInput when it was made
  dualPosts,      \* every POST sent, in order: url, message and click
  dualUserMsgs    \* every user message displayed, in order

dualVars == <<dualScript, dualContainer, dualInput, dualClicks, dualTyped,
              dualPosts, dualUserMsgs>>

\* the current chat script and its older copy
DualScripts == {"current", "older"}

\* the url the jQuery handler posts to: CHAT_API_URL in the current script,
\* the placeholder of the older copy
JQueryUrl(script) ==
  IF script = "current" THEN "CHAT_API_URL" ELSE "/path-to-your-chat-api/"

\* the message the jQuery handler displays and posts: trimmed by the current
\* script, as typed by the older copy
JQueryMessage(script, value) ==
  IF script = "current" THEN Trim(value) ELSE value

\* the jQuery click handler: what it displays and posts, and the input it
\* leaves; displayMessage throws on a page without #chat-container, which
\* ends the handler before the input is cleared
JQueryClick(script, container, value, click) ==
  IF Trim(value) = <<>> \/ ~container
    THEN [msgs |-> <<>>, posts |-> <<>>, input |-> value]
    ELSE [msgs |-> <<[container |-> "chat-container",
                      text |-> JQueryMessage(script, value), click |-> click]>>,
          posts |-> <<[url |-> JQueryUrl(script),
                       message |-> JQueryMessage(script, value), click |-> click]>>,
          input |-> <<>>]

\* the submit handler of #chatForm, run on the input the click handler left
NativeSubmit(value, click) ==
  IF Trim(value) = <<>>
    THEN [msgs |-> <<>>, posts |-> <<>>, input |-> value]
    ELSE [msgs |-> <<[container |-> "chatMessages", text |-> Trim(value), click |-> click]>>,
          posts |-> <<[url |-> "CHAT_API_URL", message |-> Trim(value), click |-> click]>>,
          input |-> <<>>]

DualInit ==
  /\ dualScript \in DualScripts
  /\ dualContainer \in BOOLEAN
  /\ dualInput = <<>>
  /\ dualClicks = 0
  /\ dualTyped = <<>>
  /\ dualPosts = <<>>
  /\ dualUserMsgs = <<>>

\* the user edits #userInput
DualType(text) ==
  /\ text # dualInput
  /\ dualInput' = text
  /\ UNCHANGED <<dualScript, dualContainer, dualClicks, dualTyped, dualPosts, dualUserMsgs>>

\* one click on #sendButton: the click handler, then the submit handler
ClickSend ==
  LET click == dualClicks + 1
      jq    == JQueryClick(dualScript, dualContainer, dualInput, click)
      nat   == NativeSubmit(jq.input, click)
  IN /\ dualClicks < MaxSendClicks
     /\ dualClicks' = click
     /\ dualTyped' = Append(dualTyped, dualInput)
     /\ dualUserMsgs' = dualUserMsgs \o jq.msgs \o nat.msgs
     /\ dualPosts' = dualPosts \o jq.posts \o nat.posts
     /\ dualInput' = nat.input
     /\ UNCHANGED <<dualScript, dualContainer>>

(* ======================================================================= *)
(* Specifications                                                          *)
(* ======================================================================= *)

vars == <<statsVars, listVars, sortVars, chartVars, pageVars, relVars, chatVars, tplVars, prevVars, baseVars, dualVars>>

\* a page that has no item-stats section
StatsIdle ==
  /\ activeBtns = {}
  /\ statText = [id \in StatIds |-> TemplateText(id)]
  /\ inflight = {}
  /\ sent = 0
  /\ completed = 0
  /\ lastOutcome = "none"
  /\ lastClicked = "none"

\* a page that has no podium / list toggle
ListIdle ==
  /\ pageRange = "last_4_weeks"
  /\ itemType = "artists"
  /\ dataView = "podium"
  /\ podiumDisplay = ""
  /\ listDisplay = "none"
  /\ dataLoaded = FALSE
  /\ listInflight = {}
  /\ listSent = <<>>
  /\ spinnerState = "idle"
  /\ listItems = NoItems

\* a page that has no sortable table
SortIdle ==
  /\ sorter = "artist_tracks"
  /\ tbody = <<>>
  /\ thClass = [h \in Columns |-> {}]
  /\ isAscending = [h \in Columns |-> FALSE]
  /\ lastHeader = 0
  /\ lastAsc = FALSE
  /\ tbody2 = <<>>
  /\ thClass2 = [h \in Columns |-> {}]
  /\ isAscending2 = [h \in Columns |-> FALSE]
  /\ lastHeader2 = 0
  /\ lastTable = 0

\* a page that has no chart canvas
ChartsIdle ==
  /\ chartCfg = [c \in CanvasIds |-> "absent"]
  /\ chartInstances = [c \in CanvasIds |-> 0]
  /\ liveCharts = [c \in CanvasIds |-> {}]
  /\ destroyedCharts = {}
  /\ chartsMade = 0
  /\ newChartCalls = [c \in CanvasIds |-> 0]
  /\ chartPc = Len(ChartCalls) + 2

\* a page that has no releases container
ReleasesIdle ==
  /\ relFetched = <<>>
  /\ currentType = "album"
  /\ relActive = {}
  /\ relInflight = {}
  /\ relSent = 0
  /\ relContainer = TemplateContainer
  /\ relLatest = TemplateContainer
  /\ relSpinner = "none"
  /\ relLast = NoRelCall

\* a page that has no chat form
ChatIdle ==
  /\ chatImpl = "native"
  /\ userInput = <<>>
  /\ chatLog = <<>>
  /\ chatInflight = {}
  /\ chatPosts = <<>>
  /\ chatSubmits = 0
  /\ loadingIndicator = "none"

\* a page that has no chart of the stats template
TplIdle ==
  /\ tplCfg = [c \in TplChartIds |-> "unseen"]
  /\ tplInstances = [c \in TplChartIds |-> "none"]
  /\ tplPc = Len(TplCharts) + 1
  /\ tplEscaped = FALSE

\* a page that has no show-previews control
PreviewsIdle ==
  /\ prevDisabled = FALSE
  /\ prevText = ""
  /\ prevInflight = {}
  /\ prevSent = 0
  /\ prevLoaded = FALSE
  /\ prevLast = "none"

\* a page on which neither form is used
BaseIdle ==
  /\ baseScript = "fetch"
  /\ basePage = "open"
  /\ totalFiles = 0
  /\ completedFiles = 0
  /\ uploads = <<>>
  /\ loadingMessage = "hidden"
  /\ completionShown = 0
  /\ redirectsScheduled = 0
  /\ delConfirmed = 0
  /\ delDeclined = 0
  /\ delSent = 0
  /\ delInflight = 0
  /\ reloads = 0

\* a page without the chat form
DualIdle ==
  /\ dualScript = "current"
  /\ dualContainer = FALSE
  /\ dualInput = <<>>
  /\ dualClicks = 0
  /\ dualTyped = <<>>
  /\ dualPosts = <<>>
  /\ dualUserMsgs = <<>>

\* a tab that shows neither page
PagesIdle ==
  /\ page = "other"
  /\ loading = NoNav
  /\ pageActive = "last_4_weeks"
  /\ customDisplay = "none"
  /\ jqDisplay = ""
  /\ startDate = [kind |-> "empty", day |-> 0]
  /\ endDate = [kind |-> "empty", day |-> 0]
  /\ errorEl = NoError
  /\ errorCount = 0
  /\ storage = NoEntry
  /\ scrollY = 0
  /\ cssHides = FALSE
  /\ jqFirst = FALSE
  /\ lastEvent = NoEvent

StatsNext ==
  \/ \E btn \in RangeBtns : ClickRange(btn) /\ UNCHANGED <<listVars, sortVars, chartVars, pageVars, relVars, chatVars, tplVars, prevVars, baseVars, dualVars>>
  \/ \E q \in inflight, outcome \in Outcomes :
       StatsResponse(q, outcome) /\ UNCHANGED <<listVars, sortVars, chartVars, pageVars, relVars, chatVars, tplVars, prevVars, baseVars, dualVars>>

InitStats == StatsInit /\ ListIdle /\ SortIdle /\ ChartsIdle /\ PagesIdle /\ ReleasesIdle /\ ChatIdle /\ TplIdle /\ PreviewsIdle /\ BaseIdle /\ DualIdle

SpecStats == InitStats /\ [][StatsNext]_vars

ListNext ==
  \/ ToggleView /\ UNCHANGED <<statsVars, sortVars, chartVars, pageVars, relVars, chatVars, tplVars, prevVars, baseVars, dualVars>>
  \/ \E q \in listInflight, outcome \in ListOutcomes :
       ListResponse(q, outcome) /\ UNCHANGED <<statsVars, sortVars, chartVars, pageVars, relVars, chatVars, tplVars, prevVars, baseVars, dualVars>>

InitList == ListInit /\ StatsIdle /\ SortIdle /\ ChartsIdle /\ PagesIdle /\ ReleasesIdle /\ ChatIdle /\ TplIdle /\ PreviewsIdle /\ BaseIdle /\ DualIdle

SpecList == InitList /\ [][ListNext]_vars

SortNext ==
  \E t \in TableIds, th \in Columns : ClickHeader(t, th) /\ UNCHANGED <<statsVars, listVars, chartVars, pageVars, relVars, chatVars, tplVars, prevVars, baseVars, dualVars>>

InitSort == SortInit /\ StatsIdle /\ ListIdle /\ ChartsIdle /\ PagesIdle /\ ReleasesIdle /\ ChatIdle /\ TplIdle /\ PreviewsIdle /\ BaseIdle /\ DualIdle

SpecSort == InitSort /\ [][SortNext]_vars

ReleasesNext ==
  \/ \E type \in ReleaseTabs : ClickFilter(type) /\ UNCHANGED <<statsVars, listVars, sortVars, chartVars, pageVars, chatVars, tplVars, prevVars, baseVars, dualVars>>
  \/ \E q \in relInflight, outcome \in RelOutcomes :
       ReleasesResponse(q, outcome) /\ UNCHANGED <<statsVars, listVars, sortVars, chartVars, pageVars, chatVars, tplVars, prevVars, baseVars, dualVars>>

InitReleases == ReleasesInit /\ StatsIdle /\ ListIdle /\ SortIdle /\ ChartsIdle /\ PagesIdle /\ ChatIdle /\ TplIdle /\ PreviewsIdle /\ BaseIdle /\ DualIdle

SpecReleases == InitReleases /\ [][ReleasesNext]_vars

otherThanChat == <<statsVars, listVars, sortVars, chartVars, pageVars, relVars, tplVars, prevVars, baseVars, dualVars>>

ChatNext ==
  \/ \E text \in InputTexts : TypeText(text) /\ UNCHANGED otherThanChat
  \/ SubmitChat /\ UNCHANGED otherThanChat
  \/ \E q \in chatInflight, outcome \in ChatOutcomes :
       ChatResponse(q, outcome) /\ UNCHANGED otherThanChat

\* every POST is answered or fails
ChatAnswered ==
  \E q \in chatInflight, outcome \in ChatOutcomes :
    ChatResponse(q, outcome) /\ UNCHANGED otherThanChat

InitChat == ChatInit /\ StatsIdle /\ ListIdle /\ SortIdle /\ ChartsIdle /\ PagesIdle /\ ReleasesIdle /\ TplIdle /\ PreviewsIdle /\ BaseIdle /\ DualIdle

\* the browser settles every fetch and every $.ajax call: the promise resolves
\* or rejects, one of the callbacks runs
SpecChat == InitChat /\ [][ChatNext]_vars /\ WF_vars(ChatAnswered)

otherThanTpl == <<statsVars, listVars, sortVars, chartVars, pageVars, relVars, chatVars, prevVars, baseVars, dualVars>>

TplNext ==
  \E found \in TplFindings, result \in {"none", "chart", "junk"} :
    InitializeChart(found, result) /\ UNCHANGED otherThanTpl

InitTpl == TplInit /\ StatsIdle /\ ListIdle /\ SortIdle /\ ChartsIdle /\ PagesIdle /\ ReleasesIdle /\ ChatIdle /\ PreviewsIdle /\ BaseIdle /\ DualIdle

SpecTpl == InitTpl /\ [][TplNext]_vars

otherThanPreviews == <<statsVars, listVars, sortVars, chartVars, pageVars, relVars, chatVars, tplVars, baseVars, dualVars>>

PreviewsNext ==
  \/ ClickShowPreviews /\ UNCHANGED otherThanPreviews
  \/ \E q \in prevInflight, outcome \in PreviewOutcomes :
       PreviewResponse(q, outcome) /\ UNCHANGED otherThanPreviews

InitPreviews == PreviewsInit /\ StatsIdle /\ ListIdle /\ SortIdle /\ ChartsIdle /\ PagesIdle /\ ReleasesIdle /\ ChatIdle /\ TplIdle /\ BaseIdle /\ DualIdle

SpecPreviews == InitPreviews /\ [][PreviewsNext]_vars

\* the import and delete forms
otherThanBase == <<statsVars, listVars, sortVars, chartVars, pageVars, relVars, chatVars, tplVars, prevVars, dualVars>>
BaseNext ==
  \/ \E n \in 0..MaxFiles : SubmitImport(n) /\ UNCHANGED otherThanBase
  \/ \E f \in 1..MaxFiles, outcome \in HttpOutcomes :
       UploadResponse(f, outcome) /\ UNCHANGED otherThanBase
  \/ RedirectFires /\ UNCHANGED otherThanBase
  \/ \E answer \in BOOLEAN : SubmitDelete(answer) /\ UNCHANGED otherThanBase
  \/ \E outcome \in HttpOutcomes : DeleteResponse(outcome) /\ UNCHANGED otherThanBase

InitBase == BaseInit /\ StatsIdle /\ ListIdle /\ SortIdle /\ ChartsIdle /\ PagesIdle /\ ReleasesIdle /\ ChatIdle /\ TplIdle /\ PreviewsIdle /\ DualIdle

SpecBase == InitBase /\ [][BaseNext]_vars

\* the chat page with both implementations
otherThanDual == <<statsVars, listVars, sortVars, chartVars, pageVars, relVars, chatVars, tplVars, prevVars, baseVars>>
DualNext ==
  \/ \E text \in InputTexts : DualType(text) /\ UNCHANGED otherThanDual
  \/ ClickSend /\ UNCHANGED otherThanDual

InitDual == DualInit /\ StatsIdle /\ ListIdle /\ SortIdle /\ ChartsIdle /\ PagesIdle /\ ReleasesIdle /\ ChatIdle /\ TplIdle /\ PreviewsIdle /\ BaseIdle

SpecDual == InitDual /\ [][DualNext]_vars

otherThanPages == <<statsVars, listVars, sortVars, chartVars, relVars, chatVars, tplVars, prevVars, baseVars, dualVars>>

ChartsNext ==
  \/ CreateOrUpdateCall /\ UNCHANGED <<statsVars, listVars, sortVars, pageVars, relVars, chatVars, tplVars, prevVars, baseVars, dualVars>>
  \/ SecondListenerTrend /\ UNCHANGED <<statsVars, listVars, sortVars, pageVars, relVars, chatVars, tplVars, prevVars, baseVars, dualVars>>

InitCharts == ChartsInit /\ StatsIdle /\ ListIdle /\ SortIdle /\ PagesIdle /\ ReleasesIdle /\ ChatIdle /\ TplIdle /\ PreviewsIdle /\ BaseIdle /\ DualIdle

SpecCharts == InitCharts /\ [][ChartsNext]_vars

PagesNext ==
  \/ \E y \in 0..MaxScroll : Scroll(y) /\ UNCHANGED otherThanPages
  \/ \E start \in FieldValues, end \in FieldValues :
       EditDates(start, end) /\ UNCHANGED otherThanPages
  \/ ClickCustomHome /\ UNCHANGED otherThanPages
  \/ \E range \in RangeBtns : ClickFixedHome(range) /\ UNCHANGED otherThanPages
  \/ ClickApply /\ UNCHANGED otherThanPages
  \/ ClickCustomItem /\ UNCHANGED otherThanPages
  \/ \E range \in RangeBtns : ClickFixedItem(range) /\ UNCHANGED otherThanPages
  \/ FollowLink /\ UNCHANGED otherThanPages
  \/ \E start \in FieldValues, end \in FieldValues :
       LoadHome(start, end) /\ UNCHANGED otherThanPages
  \/ LoadItem /\ UNCHANGED otherThanPages

InitPages == PagesInit /\ StatsIdle /\ ListIdle /\ SortIdle /\ ChartsIdle /\ ReleasesIdle /\ ChatIdle /\ TplIdle /\ PreviewsIdle /\ BaseIdle /\ DualIdle

SpecPages == InitPages /\ [][PagesNext]_vars

(* ======================================================================= *)
(* Claims                                                                  *)
(* ======================================================================= *)

(* ----------------------------- C1 -------------------------------------- *)
\* C1: when a stats fetch fails (the request rejects or the server answers
\* with a non-2xx status), none of the eight stat elements changes.
C1_FailureKeepsStats ==
  [][(completed' # completed /\ lastOutcome' \in Failures) => statText' = statText]_vars

(* ----------------------------- C2 -------------------------------------- *)
\* C2: on the home page a submission of the custom date range is let through
\* only if both fields are non-empty, both parse to valid dates, neither is
\* later than the current time and the start is not later than the end; in
\* every other case it is cancelled and a visible error message is shown in
\* the custom-date area.
C2_ValidRange ==
  /\ startDate.kind = "date"
  /\ endDate.kind = "date"
  /\ startDate.day * TicksPerDay <= Now
  /\ endDate.day * TicksPerDay <= Now
  /\ startDate.day <= endDate.day

C2_CustomSubmission ==
  lastEvent.kind = "apply" =>
    IF C2_ValidRange
      THEN lastEvent.result = "submitted" /\ loading.to = "home" /\ loading.range = "custom"
      ELSE /\ lastEvent.result = "cancelled"
           /\ loading = NoNav
           /\ errorEl.present /\ errorEl.display = "block" /\ errorEl.text # ""
           /\ ~Hidden(customDisplay, cssHides)

\* a custom submission was cancelled because the end date lies in the future
C2_Witness ==
  /\ lastEvent.kind = "apply"
  /\ lastEvent.result = "cancelled"
  /\ startDate = [kind |-> "date", day |-> 1]
  /\ endDate = [kind |-> "date", day |-> MaxDay]
  /\ errorEl.text = "Dates cannot be in the future."

(* ----------------------------- C3 -------------------------------------- *)
\* C3: on a form-driven page a click on a fixed-range button always leads to
\* the form being submitted, or the page navigating, with that range as
\* time_range, whatever the date fields of the form contain.
C3_FixedRangeAlwaysGoes ==
  lastEvent.kind = "fixed" =>
    /\ lastEvent.result \in {"submitted", "navigated"}
    /\ loading.to = page
    /\ loading.range = lastEvent.range

(* ----------------------------- C4 -------------------------------------- *)
\* C4: a click on the Custom button made while the custom date inputs are
\* hidden leaves them visible once every registered click handler has run,
\* and the next click hides them again.
C4_CustomToggles ==
  lastEvent.kind = "custom" =>
    (lastEvent.hiddenBefore <=> ~Hidden(customDisplay, page = "home" /\ cssHides))

(* ----------------------------- C5 -------------------------------------- *)
\* C5: after a valid custom range is submitted, the saved scroll offset is
\* restored on the page load that results from the submission and is then
\* removed from session storage.
C5_RestoredThenCleared ==
  (lastEvent.kind = "load" /\ lastEvent.range = "apply") =>
    (lastEvent.result = "restored" /\ ~storage.set)

(* ----------------------------- C6 -------------------------------------- *)
\* C6: exactly one time-range button carries the active marker: initially
\* last_4_weeks, afterwards the most recently clicked button and no other.
C6_OneActiveButton ==
  /\ Cardinality(activeBtns) = 1
  /\ lastClicked = "none" => activeBtns = {"last_4_weeks"}
  /\ lastClicked # "none" => activeBtns = {lastClicked}

C6_Witness ==
  /\ lastClicked = "all_time"
  /\ sent = MaxRequests
  /\ activeBtns = {"all_time"}

(* ----------------------------- C7 -------------------------------------- *)
\* C7: in each table sorter the first click on a header sorts ascending, a
\* further click on the same header with no other header clicked in between
\* reverses the direction, and a click on a header made after a different
\* header was clicked sorts ascending again.
C7_DirectionRule ==
  [][/\ lastHeader' # lastHeader => lastAsc' = TRUE
     /\ lastHeader' = lastHeader => lastAsc' = ~lastAsc]_<<lastHeader, lastAsc>>

(* ----------------------------- C8 -------------------------------------- *)
\* C8: after a click on a header of sort type number the body rows are
\* ordered by the float-parsed cell text of that column, unparseable text
\* counting as 0: non-decreasing when ascending, non-increasing when
\* descending.
C8_NumberOrder ==
  (lastHeader # 0 /\ SortType(lastHeader) = "number") =>
    \A i \in 1..(Len(tbody) - 1) :
      LET x == OrZero(parseFloat(tbody[i].cells[lastHeader]))
          y == OrZero(parseFloat(tbody[i + 1].cells[lastHeader]))
      IN IF lastAsc THEN x <= y ELSE x >= y

\* the same two rules for the sorters that read the data-sort attribute
C7_NotAlbum ==
  [][sorter # "album" =>
      /\ lastHeader' # lastHeader => lastAsc' = TRUE
      /\ lastHeader' = lastHeader => lastAsc' = ~lastAsc]_<<lastHeader, lastAsc>>
C8_NotAlbum ==
  sorter # "album" => C8_NumberOrder

C10_AtMostOneRequest ==
  Len(listSent) <= 1

(* ----------------------------- C11 ------------------------------------- *)
\* C11: every request sent to the top-items endpoint carries the time range
\* the page is showing, for each of the six range tokens, custom included.
C11_RequestCarriesActiveRange ==
  \A i \in 1..Len(listSent) : listSent[i].range = pageRange

(* ----------------------------- C12 ------------------------------------- *)
\* a compilation whose first credited artist is not the page's artist
ForeignCompilation(r) ==
  r.album_type = "compilation" /\ r.artists[1] # ThisArtist

\* the releases a tab is to show, in the order they were fetched
ShownOnTab(releases, tab) ==
  LET Test(r) ==
        CASE tab = "compilation" -> r.album_type = "compilation" /\ r.artists[1] = ThisArtist
          [] tab = "all" -> r.album_type # "appears_on" /\ ~ForeignCompilation(r)
          [] OTHER -> r.album_type = tab
  IN SelectSeq(releases, Test)

\* C12: whenever the releases container shows the result of a tab's request
\* (a list or the empty message), it shows exactly the fetched releases that
\* belong to that tab: own compilations for compilation; for all, everything
\* but appears_on credits and other artists' compilations; for album and
\* single, the releases of that album type.
C12_ReleasesShown ==
  relContainer.kind \in {"list", "empty_message"} =>
    relContainer.items = ShownOnTab(relFetched, relLast.type)

\* the all tab has filtered a discography that holds another artist's
\* compilation, an appears_on credit and something to show
C12_Witness ==
  /\ relContainer.kind = "list"
  /\ relLast.type = "all"
  /\ \E i \in DOMAIN relFetched : ForeignCompilation(relFetched[i])
  /\ \E i \in DOMAIN relFetched : relFetched[i].album_type = "appears_on"

(* ----------------------------- C13 ------------------------------------- *)
Count(s, r) == Cardinality({i \in DOMAIN s : s[i] = r})

\* C13: the latest-releases list holds at most ten releases, each of them a
\* fetched release that is no other artist's compilation, ordered from newest
\* to oldest; it is as long as the limit and the eligible releases allow, and
\* no eligible release left out is newer than a release in the list.
C13_LatestReleases ==
  relLatest.kind = "list" =>
    LET items == relLatest.items
        Eligible(r) == ~ForeignCompilation(r)
        eligible == SelectSeq(relFetched, Eligible)
    IN /\ Len(items) <= 10
       /\ Len(items) = 10 \/ Len(items) = Len(eligible)
       /\ \A i \in DOMAIN items :
            Eligible(items[i]) /\ Count(items, items[i]) <= Count(relFetched, items[i])
       /\ \A i, j \in DOMAIN items :
            i < j => DateOf(items[i].release_date) >= DateOf(items[j].release_date)
       /\ \A k \in DOMAIN eligible :
            Count(items, eligible[k]) < Count(eligible, eligible[k]) =>
              \A i \in DOMAIN items :
                DateOf(eligible[k].release_date) <= DateOf(items[i].release_date)

\* the list was cut: more than ten releases were eligible, and the discography
\* holds another artist's compilation
C13_Witness ==
  /\ relLatest.kind = "list"
  /\ Len(relLatest.items) = 10
  /\ Len(relFetched) > 10
  /\ \E i \in DOMAIN relFetched : ForeignCompilation(relFetched[i])
  /\ \E i \in DOMAIN relFetched :
       /\ ~ForeignCompilation(relFetched[i])
       /\ Count(relLatest.items, relFetched[i]) < Count(relFetched, relFetched[i])

(* ----------------------------- C14 ------------------------------------- *)
\* the bot messages that belong to submission id
BotMessages(id) ==
  {i \in DOMAIN chatLog : chatLog[i].sender = "bot" /\ chatLog[i].of = id}

\* what a submission has done by the time its handler returns
Submitted(id) ==
  /\ \E i \in DOMAIN chatLog :
       /\ chatLog[i] = Message("user", "typed", chatPosts[id].message, id)
       /\ \A j \in DOMAIN chatLog : chatLog[j].sender = "user" /\ chatLog[j].of = id => j = i
       /\ \A j \in BotMessages(id) : i < j
  /\ chatPosts[id].of = id
  /\ chatPosts[id].message # <<>>
  /\ chatPosts[id].message = Trim(chatPosts[id].message)

StatsOfRange(range) ==
  [id \in StatIds |-> StatFormat(id, [range |-> range, field |-> FieldOf(id)])]

\* C15: when the last of several overlapping stats requests is answered with
\* the stats, the values shown from then on are those of that answer, the one
\* that arrived last, whatever the order the requests were sent in.
C15_LastArrivedWins ==
  [][(inflight # {} /\ inflight' = {} /\ lastOutcome' = "ok") =>
       \A q \in inflight : statText' = StatsOfRange(q.range)]_vars

\* two requests overlapped and the one sent first was answered last: the
\* values shown are not those of the button clicked last
C15_Witness ==
  /\ inflight = {}
  /\ completed >= 2
  /\ lastOutcome = "ok"
  /\ lastClicked \in RangeBtns
  /\ statText # StatsOfRange(lastClicked)
  /\ \E range \in RangeBtns : statText = StatsOfRange(range)

(* ----------------------------- C16 ------------------------------------- *)
\* C16: a chart whose canvas or data element is missing, or whose data does
\* not parse, is not created, and no error escapes its initializer: every
\* initializer runs, and every chart whose canvas and JSON object are on the
\* page is created whatever the initializers before it found.
C16_FailureStaysLocal ==
  /\ ~tplEscaped
  /\ \A i \in 1..Len(TplCharts) :
       LET chart == TplCharts[i]
       IN IF i < tplPc
            THEN /\ tplCfg[chart] \in {"no_canvas", "no_data", "bad"} =>
                      tplInstances[chart] = "none"
                 /\ tplCfg[chart] = "object" => tplInstances[chart] = "chart"
            ELSE tplCfg[chart] = "unseen" /\ tplInstances[chart] = "none"

\* all initializers have run: one found no canvas, one no data element, one
\* text that does not parse, and charts after them were created
C16_Witness ==
  /\ tplPc = Len(TplCharts) + 1
  /\ tplCfg["streamingTrend"] = "bad"
  /\ tplCfg["radar"] = "no_canvas"
  /\ tplCfg["doughnut"] = "no_data"
  /\ tplInstances["polar"] = "chart"
  /\ tplInstances["bar"] = "chart"

(* ----------------------------- C17 ------------------------------------- *)
\* C17: a chart whose canvas and data element are present is created from a
\* valid payload both when the data element holds the JSON object and when it
\* holds the object JSON-encoded a second time.
C17_DoubleEncodingTolerated ==
  \A c \in TplChartIds :
    tplCfg[c] \in {"object", "string"} => tplInstances[c] = "chart"

(* ----------------------------- C18 ------------------------------------- *)
\* C18: from a click on the show-previews control until its request has
\* finished no second preview request is started; after a failed request the
\* control is enabled and labelled with the error, after a successful one it
\* stays disabled.
C18_OnePreviewRequest ==
  /\ Cardinality(prevInflight) <= 1
  /\ (prevInflight = {} /\ prevLast \in PreviewOutcomes \ {"ok"}) =>
       (~prevDisabled /\ prevText = "Error Loading Previews")
  /\ (prevInflight = {} /\ prevLast = "ok") => prevDisabled

(* ----------------------------- C19 ------------------------------------- *)
\* C19: any sequence of header clicks leaves each table body holding exactly
\* the rows it held at page load, each of them once: a click changes only
\* the order of the rows of the clicked header's table and the sort markers
\* of that table's headers.
SameRows(a, b) ==
  /\ Len(a) = Len(b)
  /\ \A i \in 1..Len(a) : Count(b, a[i]) = Count(a, a[i])
EachRowOnce(rows) ==
  \A i, j \in 1..Len(rows) : rows[i].id = rows[j].id => i = j
C19_ClickKeepsRows ==
  /\ [](EachRowOnce(tbody) /\ EachRowOnce(tbody2))
  /\ [][/\ SameRows(tbody', tbody)
        /\ SameRows(tbody2', tbody2)
        /\ lastTable' = 1 => (tbody2' = tbody2 /\ thClass2' = thClass2)
        /\ lastTable' = 2 => (tbody' = tbody /\ thClass' = thClass)]_sortVars
C19_Witness ==
  /\ lastTable = 2
  /\ lastHeader # 0
  /\ tbody2 # OtherTable
  /\ Len(tbody) = MaxRows
  /\ tbody[1].id # 1

(* ----------------------------- C20 ------------------------------------- *)
\* C20: at any time at most one header cell of a table's header row carries
\* a sort marker, no header carries both the ascending and the descending
\* marker, and the marked header is the one clicked last; the sorters that
\* set markers mark the clicked header on every click.
Marked(t) == {h \in Columns : ClassesOf(t)[h] \cap {"asc", "desc"} # {}}
LastHeaderOf(t) == IF t = 1 THEN lastHeader ELSE lastHeader2
C20_OneMarker ==
  \A t \in TableIds :
    /\ Cardinality(Marked(t)) <= 1
    /\ \A h \in Columns : ~({"asc", "desc"} \subseteq ClassesOf(t)[h])
    /\ Marked(t) \subseteq {LastHeaderOf(t)}
    /\ (sorter # "album" /\ LastHeaderOf(t) # 0) => Marked(t) = {LastHeaderOf(t)}
C20_Witness ==
  /\ sorter # "album"
  /\ lastHeader = 2
  /\ lastHeader2 = 1
  /\ thClass[2] = {"desc"}
  /\ thClass2[1] = {"asc"}
  /\ lastTable = 1

(* ----------------------------- C21 ------------------------------------- *)
\* C21: at every moment exactly one of the podium view and the list view is
\* displayed and the control's data-view attribute names the displayed one;
\* each click on the control switches to the other view.
Displayed(display) == display # "none"
C21_OneViewDisplayed ==
  /\ [](/\ Displayed(podiumDisplay) # Displayed(listDisplay)
        /\ dataView \in {"podium", "list"}
        /\ (dataView = "podium") = Displayed(podiumDisplay))
  /\ [][listInflight \subseteq listInflight' => dataView' # dataView]_listVars
C21_Witness ==
  /\ dataView = "podium"
  /\ podiumDisplay = "block"
  /\ listDisplay = "none"
  /\ Len(listSent) = 1

(* ----------------------------- C22 ------------------------------------- *)
\* C22: whenever no stats request is in flight and the last response to
\* arrive was a success, the stat values displayed are those for the range
\* of the button that currently carries the active marker.
C22_ShownMatchesActive ==
  (inflight = {} /\ lastOutcome = "ok") =>
    \A btn \in activeBtns : statText = StatsOfRange(btn)

(* ----------------------------- C23 ------------------------------------- *)
\* C23: whenever no releases request is in flight and the last response to
\* arrive was a success, the releases container shows the filtered result
\* (or the empty message) for the tab that is currently marked active.
ContainerOfTab(tab) ==
  LET shown == ShownOnTab(relFetched, tab)
  IN IF shown = <<>> THEN Container("empty_message", tab, <<>>)
     ELSE Container("list", "none", shown)
C23_ShownMatchesActiveTab ==
  (relInflight = {} /\ relLast.outcome = "ok") =>
    \A tab \in relActive : relContainer = ContainerOfTab(tab)

(* ----------------------------- C24 ------------------------------------- *)
\* C24: for an import of N files uploaded concurrently the completion
\* message is shown and the redirect is scheduled exactly once and only
\* after all N uploads have succeeded; if any upload fails, neither ever
\* happens, for every order in which the responses arrive.
Succeeded(f) == uploads[f] \in {"200", "201"}
FailedUpload(f) == uploads[f] \in {"500", "network_error"}
C24_CompletionOnce ==
  /\ completionShown <= 1
  /\ redirectsScheduled = completionShown
  /\ completionShown = 1 =>
       (totalFiles >= 1 /\ \A f \in 1..totalFiles : Succeeded(f))
  /\ (\E f \in 1..totalFiles : FailedUpload(f)) =>
       (completionShown = 0 /\ loadingMessage # "completed")
  /\ (totalFiles >= 1 /\ \A f \in 1..totalFiles : uploads[f] = "200") =>
       (completionShown = 1 /\ loadingMessage = "completed")
C24_Witness ==
  /\ totalFiles = MaxFiles
  /\ completionShown = 1
  /\ redirectsScheduled = 1
  /\ loadingMessage = "completed"
  /\ basePage = "left"
C24_WitnessFailure ==
  /\ totalFiles = MaxFiles
  /\ uploads[1] = "500"
  /\ \A f \in 2..totalFiles : uploads[f] = "200"
  /\ completedFiles = MaxFiles - 1

(* ----------------------------- C25 ------------------------------------- *)
\* C25: a request to delete the listening history is sent only after the
\* user has confirmed the deletion; when the user declines, nothing is sent
\* and the page is not reloaded.
C25_DeleteOnlyConfirmed ==
  /\ delSent <= delConfirmed
  /\ reloads <= delConfirmed

(* ----------------------------- C26 ------------------------------------- *)
\* C26: on the home page a scrollPosition entry is written to session
\* storage only for a submission that passes every custom-date validation
\* check; a click on Apply whose submission is then cancelled by validation
\* leaves session storage unchanged.
C26_StorageOnlyOnValid ==
  [][(page = "home" /\ page' = "home" /\ storage'.set /\ storage' # storage) =>
       (lastEvent'.kind \in {"apply", "fixed"} /\ lastEvent'.result = "submitted")]_pageVars

C28_RepliesInSubmissionOrder ==
  \A i, j \in 1..Len(chatLog) :
    (i < j /\ chatLog[i].sender = "bot" /\ chatLog[j].sender = "bot") =>
      chatLog[i].of < chatLog[j].of

(* ----------------------------- C29 ------------------------------------- *)
\* the POSTs to the chat endpoint and the user messages that click k produced
PostsOfClick(k) ==
  {i \in 1..Len(dualPosts) : dualPosts[i].click = k /\ dualPosts[i].url = "CHAT_API_URL"}
UserMsgsOfClick(k) ==
  {i \in 1..Len(dualUserMsgs) : dualUserMsgs[i].click = k}

\* C29: on a page where both chat implementations are attached and the send
\* button submits the chat form, one click on the send button results in
\* exactly one POST to the chat endpoint and exactly one displayed user
\* message, never two.
C29_OnePostPerClick ==
  \A k \in 1..dualClicks :
    Trim(dualTyped[k]) # <<>> =>
      /\ Cardinality(PostsOfClick(k)) = 1
      /\ Cardinality(UserMsgsOfClick(k)) = 1

\* the same rule for the current script alone
C29_CurrentScript ==
  dualScript = "current" => C29_OnePostPerClick

(* ----------------------------- C30 ------------------------------------- *)
\* C30: after any sequence of form submissions on the home page the
\* custom-date area contains at most one error-message element, and that
\* element is visible only if the most recent submission failed validation.
C30_OneErrorElement ==
  /\ [](/\ errorCount <= 1
        /\ errorEl.present = (errorCount = 1)
        /\ errorEl.display = "block" => errorEl.present)
  /\ [][(page = "home" /\ lastEvent'.kind \in {"apply", "fixed"}) =>
          /\ errorCount' = 1
          /\ errorEl'.display = "block" => lastEvent'.result = "cancelled"]_pageVars
  /\ [][errorEl' # errorEl =>
          \/ page = "home" /\ lastEvent'.kind \in {"apply", "fixed"}
          \/ lastEvent'.kind = "load" /\ errorEl' = NoError]_pageVars
C30_Witness ==
  /\ page = "home"
  /\ lastEvent.kind = "fixed"
  /\ lastEvent.result = "cancelled"
  /\ storage = [set |-> TRUE, y |-> 0]
  /\ scrollY = 1
  /\ errorCount = 1
  /\ errorEl.display = "block"

====
